---- MODULE Spec2Model ----
(***************************************************************************)
(* The tracking-and-scoring loop of the video analysis scripts             *)
(*   functions/yolo/detect_video_full_ai_json.py            ("plain")      *)
(*   functions/yolo/detect_video_full_ai_json_with_vad.py   ("vad")        *)
(* One behaviour is one run of one script over one video.                  *)
(*                                                                         *)
(* Numbers.  Pixel coordinates are integers.  math.hypot values are only   *)
(* ever compared with each other and with the threshold, so they are       *)
(* compared through their squares.  fps is kept in tenths (fps10).         *)
(* Magnitudes that enter the scores are fixed point: motion_magnitude in   *)
(* 1/100 pixel (floor of the square root), confidence in percent, scores   *)
(* in units of 1/ScoreOne.                                                  *)
(***************************************************************************)
EXTENDS Integers, Sequences, FiniteSets, TLC

\* ------------------------------------------------------------- bounds
MaxFrames == 5
MaxDet == 2
MaxIds == 2
MaxErrors == 1
MaxAlignFrames == 60
MaxHandlers == 2
MaxDbFailures == 1
MaxSends == 4

\* ---------------------------------------------------- program constants
DefaultFps10 == 300
DefaultWidth == 1920
DefaultHeight == 1080
ThresholdPct == 12
SceneThreshold == 25
MotionNorm == 30
AreaWeight == 45
MotionWeight == 35
ConfWeight == 20
SceneBonusPct == 50
VadPerSecond == 25
MaxRetryAttempts == 3
RetryIntervalSeconds == 180
CronSeconds == 60
RetryBatch == 10
MantissaBits == 53
LimbBits == 18
MinEvictFrames == 2
EvictSeconds == 2

None == 0
NoGray == -1
NoRecord == [frame |-> -1]
NoAudio == [is_speech |-> FALSE, speech_prob |-> -1]

\* ------------------------------------------------------------- inputs
Variants == {"plain", "vad"}
\* what cv2 reports for the video: fps in tenths, width, height
RawFps10 == {5, 13}
RawWidths == {300}
RawHeights == {160}
\* a gray frame is modelled by its uniform luminance, so that the mean
\* absolute difference of two frames is the difference of their levels
Grays == {0, 26}
\* a capture that reports neither fps nor frame size
UnknownCapture == <<0, 0, 0>>
Captures == (RawFps10 \X RawWidths \X RawHeights) \cup {UnknownCapture}

\* detections the detector may return: bbox x1,y1,x2,y2 and confidence (percent);
\* DetA fills the frame, DetC is a degenerate box of area 0, DetF is a box that
\* the detector did not clip: it reaches past the top and the bottom edge
DetA == [x1 |-> 0, y1 |-> 0, x2 |-> 300, y2 |-> 160, conf |-> 100]
DetB == [x1 |-> 150, y1 |-> 80, x2 |-> 154, y2 |-> 82, conf |-> 100]
DetC == [x1 |-> 186, y1 |-> 80, x2 |-> 186, y2 |-> 80, conf |-> 0]
DetF == [x1 |-> 220, y1 |-> -10, x2 |-> 224, y2 |-> 170, conf |-> 100]
Detections == {DetA, DetB, DetC, DetF}

RECURSIVE SeqsUpTo(_, _)
SeqsUpTo(S, n) ==
    IF n = 0 THEN {<<>>}
    ELSE LET shorter == SeqsUpTo(S, n - 1)
         IN shorter \cup {Append(s, x) : s \in {t \in shorter : Len(t) = n - 1}, x \in S}

\* frames hold at most one detection, or up to MaxDet of the two overlapping ones
PairDetections == {DetA, DetB}
DetectionLists == SeqsUpTo(Detections, 1) \cup SeqsUpTo(PairDetections, MaxDet)

\* ------------------------------------------------------------ helpers
Max(a, b) == IF a >= b THEN a ELSE b
Min(a, b) == IF a <= b THEN a ELSE b
Abs(a) == IF a >= 0 THEN a ELSE -a

\* floor of the square root
RECURSIVE IsqrtIn(_, _, _)
IsqrtIn(n, lo, hi) ==
    IF lo >= hi THEN lo
    ELSE LET mid == (lo + hi + 1) \div 2
         IN IF mid * mid <= n THEN IsqrtIn(n, mid, hi) ELSE IsqrtIn(n, lo, mid - 1)
Isqrt(n) == IsqrtIn(n, 0, Min(n, 46340))

\* (mutation) the reported fps is used as it is
FpsOfReported(raw) == raw
\* `cap.get(...) or default`
FpsOf(raw) == IF raw = 0 THEN DefaultFps10 ELSE raw
WidthOf(raw) == IF raw = 0 THEN DefaultWidth ELSE raw
HeightOf(raw) == IF raw = 0 THEN DefaultHeight ELSE raw

VARIABLES
    variant,              \* which of the two scripts runs
    fps10, width, height, \* frame geometry read from the capture
    previous_centers,     \* ordered dict id -> center, as a sequence of [id, c]
    missing_counts,       \* dict id -> consecutive frames missing
    stay_duration,        \* dict id -> frames present
    next_id,
    previous_frame_gray,
    frame_index,
    frame_data,           \* the record written by the latest loop iteration, or NoRecord
    phase,                \* "read": at cap.read(); "written": frame_XXXXX.json written;
                          \* "skipped": left the iteration by `continue`
    errors,               \* history: number of frames on which inference failed
    issued,               \* history: ids in the order they were allocated
    hist,                 \* history: per issued id, last matched center and frames since
    stream,               \* history: whether the input so far is a single steady object
    last_gray,            \* history: the gray frame of the previous loop iteration
    vad_list,             \* what get_vad_segments returned, [] when it raised
    audio,                \* the latest result of vad_for_frame, or NoAudio
    jobs,                 \* the rows of table jobs: status, failed_callbacks_count and
                          \* last_callback (minutes since last_callback_unix, or NoCallback)
    handler,              \* per request handler: where it is, its job_id and locals
    db_failures,          \* history: how often get_db_connection() has failed
    sent,                 \* history: per job, the webhooks posted to its callback URL
    acked                 \* history: per job, whether its callback URL has answered 200

vars == <<variant, fps10, width, height, previous_centers, missing_counts,
          stay_duration, next_id, previous_frame_gray, frame_index, frame_data,
          phase, errors, issued, hist, stream, last_gray, vad_list, audio,
          jobs, handler, db_failures, sent, acked>>
\* the variables of the video scripts and those of the job queue
videoVars == <<variant, fps10, width, height, previous_centers, missing_counts,
               stay_duration, next_id, previous_frame_gray, frame_index, frame_data,
               phase, errors, issued, hist, stream, last_gray, vad_list, audio>>
jobVars == <<jobs, handler, db_failures, sent, acked>>

\* ------------------------------------------------- dicts and ordered dict
Put(f, k, v) == [x \in DOMAIN f \cup {k} |-> IF x = k THEN v ELSE f[x]]
Pop(f, k) == [x \in DOMAIN f \ {k} |-> f[x]]
Get(f, k, default) == IF k \in DOMAIN f THEN f[k] ELSE default

Keys(pc) == {pc[i].id : i \in DOMAIN pc}
CenterOf(pc, id) == (CHOOSE i \in DOMAIN pc : pc[i].id = id) 
KeyList(pc) == [i \in DOMAIN pc |-> pc[i].id]
\* previous_centers[pid] = c : an existing key keeps its place, a new key goes last
SetCenter(pc, id, c) ==
    IF id \in Keys(pc)
    THEN [i \in DOMAIN pc |-> IF pc[i].id = id THEN [id |-> id, c |-> c] ELSE pc[i]]
    ELSE Append(pc, [id |-> id, c |-> c])
\* previous_centers.pop(pid, None)
PopCenter(pc, id) == SelectSeq(pc, LAMBDA e : e.id # id)

\* ------------------------------------------------------------ geometry
Dist2(a, b) == (a[1] - b[1]) * (a[1] - b[1]) + (a[2] - b[2]) * (a[2] - b[2])
\* motion_mag = math.hypot(vx, vy), in 1/100 pixel
Hypot100(vx, vy) == Isqrt((vx * vx + vy * vy) * 10000)
Unit == 100 * MotionNorm
ScoreOne == 100 * Unit

\* (mutation) the threshold is twice as wide
ExceedsTwiceThreshold(d2, w, h) ==
    d2 * 10000 > (2 * ThresholdPct * Max(w, h)) * (2 * ThresholdPct * Max(w, h))

\* (mutation) a distance equal to the threshold already counts as too far
ExceedsOrReachesThreshold(d2, w, h) ==
    d2 * 10000 >= (ThresholdPct * Max(w, h)) * (ThresholdPct * Max(w, h))

\* d > MATCH_DISTANCE_THRESHOLD, where the threshold is max(width, height) * 0.12
ExceedsThreshold(d2, w, h) ==
    d2 * 10000 > (ThresholdPct * Max(w, h)) * (ThresholdPct * Max(w, h))

\* the nearest-center search: strict '<' over the dict in iteration order
RECURSIVE NearestFrom(_, _, _, _, _)
NearestFrom(pc, c, i, obj_id, min_d2) ==
    IF i > Len(pc) THEN [id |-> obj_id, d2 |-> min_d2]
    ELSE LET d2 == Dist2(c, pc[i].c)
         IN IF obj_id = None \/ d2 < min_d2
            THEN NearestFrom(pc, c, i + 1, pc[i].id, d2)
            ELSE NearestFrom(pc, c, i + 1, obj_id, min_d2)
\* (mutation) '<=' in the search: among equally near tracks the last one wins
NearestLastTie(pc, c) ==
    IF pc = <<>> THEN [id |-> None, d2 |-> 0]
    ELSE LET i == CHOOSE n \in DOMAIN pc :
                     /\ \A j \in DOMAIN pc : Dist2(c, pc[n].c) <= Dist2(c, pc[j].c)
                     /\ \A j \in (n + 1)..Len(pc) : Dist2(c, pc[n].c) < Dist2(c, pc[j].c)
         IN [id |-> pc[i].id, d2 |-> Dist2(c, pc[i].c)]

\* (mutation) the first track of the registry is taken, not the nearest
NearestFirst(pc, c) ==
    IF pc = <<>> THEN [id |-> None, d2 |-> 0] ELSE [id |-> pc[1].id, d2 |-> Dist2(c, pc[1].c)]
Nearest(pc, c) == NearestFrom(pc, c, 1, None, 0)

\* (mutation) the increment of next_id is forgotten
NextIdStuck(nid) == nid

IsNewObject(obj_id, d2, w, h) == obj_id = None \/ ExceedsThreshold(d2, w, h)
NextIdAfter(nid) == nid + 1

\* bbox width/height: the plain script clamps at 0, the vad script does not
BoxSide(v, lo, hi) == IF v = "plain" THEN Max(0, hi - lo) ELSE hi - lo
\* area / (width*height), in 1/Unit; the plain script guards the division
AreaFraction(v, area, w, h) ==
    IF v = "plain" /\ ~(w * h > 0) THEN 0 ELSE (area * Unit) \div (w * h)

\* bbox_normalized = [cx/width, cy/height, w/width, h/height], in 1/Unit
BboxNormalized(cx, cy, w, h, fw, fh) ==
    <<(cx * Unit) \div fw, (cy * Unit) \div fh, (w * Unit) \div fw, (h * Unit) \div fh>>

\* (mutation) the motion vector points from the detection back to the old center
MotionVectorReversed(c, prev) == <<prev[1] - c[1], prev[2] - c[2]>>
\* vx = cx - previous_centers[obj_id][0], vy = cy - previous_centers[obj_id][1]
MotionVector(c, prev) == <<c[1] - prev[1], c[2] - prev[2]>>

\* (mutation) the motion term is not clamped
MotionScoreUnclamped(mag100) == mag100

\* calculate_importance, in 1/ScoreOne
AreaScore(area_frac) == Min(area_frac, Unit)
MotionScore(mag100) == Min(mag100, Unit)
CalculateImportance(area_frac, mag100, conf) ==
    AreaWeight * AreaScore(area_frac) + MotionWeight * MotionScore(mag100)
        + ConfWeight * (conf * (Unit \div 100))

\* counters of a detection whose id is already a key of previous_centers
MatchedMissing(v, missing, obj_id) ==
    IF v = "plain" THEN Put(missing, obj_id, 0) ELSE missing
MatchedStay(v, stay, obj_id) ==
    IF v = "plain" THEN Put(stay, obj_id, Get(stay, obj_id, 0) + 1)
    ELSE Put(stay, obj_id, stay[obj_id] + 1)
\* counters of a detection whose id is not a key of previous_centers
FreshMissing(v, missing, obj_id) ==
    IF v = "plain" THEN Put(missing, obj_id, 0) ELSE missing

\* (mutation) the centers of this frame's earlier detections are candidates too
CandidatesWithFrame(pc, detected) ==
    LET RECURSIVE Stored(_, _)
        Stored(acc, i) ==
            IF i > Len(detected) THEN acc
            ELSE Stored(SetCenter(acc, detected[i].id, detected[i].c), i + 1)
    IN Stored(pc, 1)
\* the match candidates of a detection: `previous_centers.items()`, which the
\* loop over the boxes never writes
Candidates(pc, detected) == pc

\* one iteration of `for box in results.boxes`
ParseBox(st, det) ==
    LET cx == (det.x1 + det.x2) \div 2
        cy == (det.y1 + det.y2) \div 2
        w == BoxSide(variant, det.x1, det.x2)
        h == BoxSide(variant, det.y1, det.y2)
        area == w * h
        area_frac == AreaFraction(variant, area, width, height)
        near == Nearest(Candidates(previous_centers, st.detected_centers), <<cx, cy>>)
        fresh == IsNewObject(near.id, near.d2, width, height)
        obj_id == IF fresh THEN st.next_id ELSE near.id
        nid == IF fresh THEN NextIdAfter(st.next_id) ELSE st.next_id
        missing0 == IF fresh THEN Put(st.missing, obj_id, 0) ELSE st.missing
        stay0 == IF fresh THEN Put(st.stay, obj_id, 0) ELSE st.stay
        known == obj_id \in Keys(previous_centers)
        prev == IF known THEN previous_centers[CenterOf(previous_centers, obj_id)].c
                ELSE <<cx, cy>>
        vx == IF known THEN MotionVector(<<cx, cy>>, prev)[1] ELSE 0
        vy == IF known THEN MotionVector(<<cx, cy>>, prev)[2] ELSE 0
        missing1 == IF known THEN MatchedMissing(variant, missing0, obj_id)
                    ELSE FreshMissing(variant, missing0, obj_id)
        stay1 == IF known THEN MatchedStay(variant, stay0, obj_id)
                 ELSE Put(stay0, obj_id, 1)
        mag == Hypot100(vx, vy)
        obj == [id |-> obj_id,
                confidence |-> det.conf,
                bbox_center |-> <<cx, cy>>,
                bbox_wh |-> <<w, h>>,
                bbox_normalized |-> BboxNormalized(cx, cy, w, h, width, height),
                bbox_area_percentage |-> area_frac,
                motion_vector |-> <<vx, vy>>,
                motion_magnitude |-> mag,
                stay_duration_frames |-> stay1[obj_id],
                importance_score |-> CalculateImportance(area_frac, mag, det.conf)]
    IN [missing |-> missing1,
        stay |-> stay1,
        next_id |-> nid,
        objects |-> Append(st.objects, obj),
        detected_centers |-> Append(st.detected_centers, [id |-> obj_id, c |-> <<cx, cy>>]),
        seen |-> st.seen \cup {obj_id},
        allocated |-> IF fresh THEN Append(st.allocated, obj_id) ELSE st.allocated]

RECURSIVE ParseObjects(_, _, _)
ParseObjects(st, dets, i) ==
    IF i > Len(dets) THEN st ELSE ParseObjects(ParseBox(st, dets[i]), dets, i + 1)

\* ------------------------------------------------------ eviction pass
\* missing_counts[pid] > limit: the plain script truncates fps*2 and keeps the
\* limit at 2 or more, the vad script compares with fps*2 itself
Exited(v, m, f10) ==
    IF v = "plain" THEN m > Max(MinEvictFrames, (f10 * EvictSeconds) \div 10)
    ELSE m * 10 > f10 * EvictSeconds

\* (mutation) an unmatched frame counts twice
MissedTwice(missing, pid) == Get(missing, pid, 0) + 2
\* missing_counts[pid] = missing_counts.get(pid, 0) + 1 (vad: missing_counts[pid] += 1)
Missed(missing, pid) == Get(missing, pid, 0) + 1

\* `for pid in list(previous_centers.keys())`, from key number i on
RECURSIVE MarkMissing(_, _, _, _)
MarkMissing(reg, pids, seen, i) ==
    IF i > Len(pids) THEN reg
    ELSE LET pid == pids[i]
             m == Missed(reg.missing, pid)
         IN IF pid \in seen THEN MarkMissing(reg, pids, seen, i + 1)
            ELSE IF Exited(variant, m, fps10)
            THEN MarkMissing([centers |-> PopCenter(reg.centers, pid),
                              missing |-> Pop(reg.missing, pid),
                              stay |-> Pop(reg.stay, pid)], pids, seen, i + 1)
            ELSE MarkMissing([reg EXCEPT !.missing = Put(reg.missing, pid, m)],
                             pids, seen, i + 1)

\* (mutation) only ids that already are keys get their center stored
RECURSIVE UpdateCentersKnown(_, _, _)
UpdateCentersKnown(pc, detected, i) ==
    IF i > Len(detected) THEN pc
    ELSE UpdateCentersKnown(IF detected[i].id \in Keys(pc)
                            THEN SetCenter(pc, detected[i].id, detected[i].c) ELSE pc,
                            detected, i + 1)

\* `for (pid, cx, cy) in detected_centers: previous_centers[pid] = [cx, cy]`
RECURSIVE UpdateCenters(_, _, _)
UpdateCenters(pc, detected, i) ==
    IF i > Len(detected) THEN pc
    ELSE UpdateCenters(SetCenter(pc, detected[i].id, detected[i].c), detected, i + 1)

\* ---------------------------------------------------- frame aggregator
ComputeSceneChange(gray, prev_gray) ==
    IF prev_gray = NoGray THEN FALSE ELSE Abs(gray - prev_gray) > SceneThreshold
SceneChange(gray, prev_gray) ==
    IF gray = NoGray THEN FALSE ELSE ComputeSceneChange(gray, prev_gray)

\* (mutation) among equal scores the last record wins
DominantLast(objects) ==
    CHOOSE i \in DOMAIN objects :
        /\ \A j \in DOMAIN objects : objects[j].importance_score <= objects[i].importance_score
        /\ \A j \in (i + 1)..Len(objects) :
              objects[j].importance_score < objects[i].importance_score
\* max(objects, key=importance_score): the first record with the largest score
Dominant(objects) ==
    CHOOSE i \in DOMAIN objects :
        /\ \A j \in DOMAIN objects : objects[j].importance_score <= objects[i].importance_score
        /\ \A j \in 1..(i - 1) : objects[j].importance_score < objects[i].importance_score

RECURSIVE SumOf(_, _, _)
SumOf(objects, field, i) ==
    IF i > Len(objects) THEN 0 ELSE objects[i][field] + SumOf(objects, field, i + 1)

\* avg_importance + motion_factor + scene bonus, in 1/ScoreOne, before the clamp
EventSum(objects, scene, w, h) ==
    LET n == Len(objects)
        avg_importance == SumOf(objects, "importance_score", 1) \div n
        motion_factor == (SumOf(objects, "motion_magnitude", 1) * (ScoreOne \div 100))
                             \div (n * (Isqrt(w * w + h * h) + 1))
    IN avg_importance + motion_factor
           + (IF scene THEN SceneBonusPct * (ScoreOne \div 100) ELSE 0)
\* (mutation) the event score is not clamped
ClampEventNone(x) == x
ClampEvent(x) == Min(ScoreOne, x)
\* (mutation) the scene bonus is also granted to a frame without objects
FrameEventScoreBonusAlways(objects, scene, w, h) ==
    IF Len(objects) > 0 THEN ClampEvent(EventSum(objects, scene, w, h))
    ELSE IF scene THEN SceneBonusPct * (ScoreOne \div 100) ELSE 0
FrameEventScore(objects, scene, w, h) ==
    IF Len(objects) > 0 THEN ClampEvent(EventSum(objects, scene, w, h)) ELSE 0

FrameRecord(objects, scene) ==
    LET dom == IF Len(objects) > 0 THEN objects[Dominant(objects)] ELSE <<>>
        base == [frame |-> frame_index,
                 objects |-> objects,
                 is_scene_change |-> scene,
                 dominant_subject_id |-> IF Len(objects) > 0 THEN dom.id ELSE None,
                 dominant_subject_confidence |->
                     IF Len(objects) > 0 THEN dom.importance_score ELSE 0,
                 \* doubled, so that width/2 and height/2 stay integers
                 frame_focus_center2 |->
                     IF Len(objects) > 0
                     THEN <<2 * dom.bbox_center[1], 2 * dom.bbox_center[2]>>
                     ELSE <<width, height>>]
    IN IF variant = "plain"
       THEN [frame |-> base.frame, objects |-> base.objects,
             is_scene_change |-> base.is_scene_change,
             dominant_subject_id |-> base.dominant_subject_id,
             dominant_subject_confidence |-> base.dominant_subject_confidence,
             frame_focus_center2 |-> base.frame_focus_center2,
             frame_event_score |-> FrameEventScore(objects, scene, width, height)]
       ELSE base

\* ---------------------------------------------------------- histories
RunCap == MinEvictFrames + 2
HistAfter(h, ids, seen, centers) ==
    [id \in ids |->
        IF id \in seen
        THEN [c |-> IF id \in Keys(centers) THEN centers[CenterOf(centers, id)].c
                    ELSE <<0, 0>>,
              run |-> 0]
        ELSE [c |-> h[id].c, run |-> Min(h[id].run + 1, RunCap)]]
\* the premise of a steady single object: a move of at most max(width, height) * 0.12
MovedAtMostThreshold(a, b) ==
    Dist2(a, b) * 10000 <= (ThresholdPct * Max(width, height)) * (ThresholdPct * Max(width, height))
DetCenter(det) == <<(det.x1 + det.x2) \div 2, (det.y1 + det.y2) \div 2>>
StreamAfter(s, dets, first) ==
    IF s.ok /\ Len(dets) = 1 /\ (first \/ MovedAtMostThreshold(DetCenter(dets[1]), s.last))
    THEN [ok |-> TRUE, last |-> DetCenter(dets[1])]
    ELSE [ok |-> FALSE, last |-> <<0, 0>>]

\* ------------------------------------------------------------ the loop
Init ==
    /\ variant \in Variants
    /\ \E cap \in Captures :
          /\ fps10 = FpsOf(cap[1])
          /\ width = WidthOf(cap[2])
          /\ height = HeightOf(cap[3])
    /\ previous_centers = <<>>
    /\ missing_counts = <<>>
    /\ stay_duration = <<>>
    /\ next_id = 1
    /\ previous_frame_gray = NoGray
    /\ frame_index = 0
    /\ frame_data = NoRecord
    /\ phase = "read"
    /\ errors = 0
    /\ issued = <<>>
    /\ hist = <<>>
    /\ stream = [ok |-> TRUE, last |-> <<0, 0>>]
    /\ last_gray = NoGray
    /\ vad_list = <<>>
    /\ audio = NoAudio
    /\ jobs = <<>>
    /\ handler = <<>>
    /\ db_failures = 0
    /\ sent = <<>>
    /\ acked = <<>>

\* the gray frames cv2.cvtColor can give
GrayInputs == Grays

\* everything one loop iteration computes when inference succeeds
FrameResult(dets, gray) ==
    LET st0 == [missing |-> missing_counts, stay |-> stay_duration, next_id |-> next_id,
                objects |-> <<>>, detected_centers |-> <<>>, seen |-> {},
                allocated |-> <<>>]
    IN LET st == ParseObjects(st0, dets, 1)
    IN LET reg == MarkMissing([centers |-> previous_centers, missing |-> st.missing,
                               stay |-> st.stay],
                              KeyList(previous_centers), st.seen, 1)
    IN [st |-> st, reg |-> reg,
        centers |-> UpdateCenters(reg.centers, st.detected_centers, 1),
        scene |-> SceneChange(gray, previous_frame_gray)]

\* one loop iteration in which inference succeeds: the record is built and written
ProcessFrame(dets, gray) ==
    /\ phase = "read"
    /\ frame_index < MaxFrames
    /\ \E r \in {FrameResult(dets, gray)} :
       /\ r.st.next_id <= MaxIds + 1
       /\ previous_centers' = r.centers
       /\ missing_counts' = r.reg.missing
       /\ stay_duration' = r.reg.stay
       /\ next_id' = r.st.next_id
       /\ frame_data' = FrameRecord(r.st.objects, r.scene)
       /\ previous_frame_gray' = gray
       /\ frame_index' = frame_index + 1
       /\ phase' = "written"
       /\ issued' = issued \o r.st.allocated
       /\ hist' = HistAfter(hist, {issued'[i] : i \in DOMAIN issued'}, r.st.seen, r.centers)
       /\ stream' = StreamAfter(stream, dets, frame_index = 0)
       /\ last_gray' = gray
       /\ UNCHANGED <<variant, fps10, width, height, errors, vad_list, audio>>
       /\ UNCHANGED jobVars

\* back to the top of `while True`: frame_data is a local of the iteration
LoopBack ==
    /\ phase \in {"written", "skipped"}
    /\ phase' = "read"
    /\ frame_data' = NoRecord
    /\ UNCHANGED <<variant, fps10, width, height, previous_centers, missing_counts,
                   stay_duration, next_id, previous_frame_gray, frame_index, errors,
                   issued, hist, stream, last_gray, vad_list, audio>>
    /\ UNCHANGED jobVars

\* previous_frame_gray after a failed inference: only the plain script stores the frame
GrayAfterError(v, gray, prev_gray) == IF v = "plain" THEN gray ELSE prev_gray

\* one loop iteration in which model(frame) raises: `frame_index += 1; continue`
InferenceError(gray) ==
    /\ phase = "read"
    /\ frame_index < MaxFrames
    /\ errors < MaxErrors
    /\ errors' = errors + 1
    /\ phase' = "skipped"
    /\ frame_index' = frame_index + 1
    /\ previous_frame_gray' = GrayAfterError(variant, gray, previous_frame_gray)
    /\ frame_data' = NoRecord
    /\ hist' = HistAfter(hist, DOMAIN hist, {}, previous_centers)
    /\ stream' = [ok |-> FALSE, last |-> <<0, 0>>]
    /\ last_gray' = gray
    /\ UNCHANGED <<variant, fps10, width, height, previous_centers, missing_counts,
                   stay_duration, next_id, issued, vad_list, audio>>
    /\ UNCHANGED jobVars

Next ==
    \/ \E dets \in DetectionLists : \E gray \in GrayInputs : ProcessFrame(dets, gray)
    \/ \E gray \in GrayInputs : InferenceError(gray)
    \/ LoopBack

Spec == Init /\ [][Next]_vars

\* ------------------------------------------------- audio-video aligner
\* Python floats are IEEE-754 binary64.  A positive float is kept as its 53
\* significand bits, cut into the limbs hi (17 bits, the top one set), mid and
\* lo (18 bits each), and the exponent e of the top bit; results are rounded to
\* nearest, ties to even.
RECURSIVE Pow2(_)
Pow2(n) == IF n = 0 THEN 1 ELSE 2 * Pow2(n - 1)
Limb == Pow2(LimbBits)
HiBits == MantissaBits - 2 * LimbBits

\* the significand one unit in the last place up, when `up`
RoundUp(x, up) ==
    IF ~up THEN x
    ELSE IF x.lo + 1 < Limb THEN [x EXCEPT !.lo = x.lo + 1]
    ELSE IF x.mid + 1 < Limb THEN [x EXCEPT !.mid = x.mid + 1, !.lo = 0]
    ELSE IF x.hi + 1 < Pow2(HiBits) THEN [x EXCEPT !.hi = x.hi + 1, !.mid = 0, !.lo = 0]
    ELSE [hi |-> Pow2(HiBits - 1), mid |-> 0, lo |-> 0, e |-> x.e + 1]
\* round to nearest, ties to even: guard is the first bit cut off, sticky tells
\* whether anything non-zero follows it
RoundToDouble(x, guard, sticky) == RoundUp(x, guard = 1 /\ (sticky \/ x.lo % 2 = 1))

\* a and b scaled by powers of two until b <= a < 2b; e is the exponent of a/b
RECURSIVE Scale(_, _, _)
Scale(a, b, e) ==
    IF a >= 2 * b THEN Scale(a, 2 * b, e + 1)
    ELSE IF a < b THEN Scale(2 * a, b, e - 1)
    ELSE [a |-> a, b |-> b, e |-> e]

\* the float a / b for integers 1 <= a, b < 2^13, by long division limb by limb
FloatDiv(a, b) ==
    LET s == Scale(a, b, 0)
        t1 == (s.a - s.b) * Pow2(HiBits - 1)
        t2 == (t1 % s.b) * Limb
        t3 == (t2 % s.b) * Limb
        t4 == (t3 % s.b) * 2
    IN RoundToDouble([hi |-> Pow2(HiBits - 1) + t1 \div s.b, mid |-> t2 \div s.b,
                      lo |-> t3 \div s.b, e |-> s.e],
                     t4 \div s.b, t4 % s.b # 0)

\* the float x * c for a float x and an integer 1 <= c < 32
FloatMul(x, c) ==
    LET l == x.lo * c
        m == x.mid * c + l \div Limb
        h == x.hi * c + m \div Limb
        k == CHOOSE n \in 0..5 : h \div Pow2(n) \in Pow2(HiBits - 1)..(Pow2(HiBits) - 1)
        cut == (l % Limb) % Pow2(k)
    IN RoundToDouble([hi |-> h \div Pow2(k),
                      mid |-> (m % Limb) \div Pow2(k) + (h % Pow2(k)) * Pow2(LimbBits - k),
                      lo |-> (l % Limb) \div Pow2(k) + ((m % Limb) % Pow2(k)) * Pow2(LimbBits - k),
                      e |-> x.e + k],
                     IF k = 0 THEN 0 ELSE cut \div Pow2(k - 1),
                     k > 0 /\ cut % Pow2(k - 1) # 0)

\* int(x) for a float 0 < x < 2^17
FloatToInt(x) == IF x.e < 0 THEN 0 ELSE x.hi \div Pow2(HiBits - 1 - x.e)

\* mapped = int((idx / fps) * (1.0 / 0.04)), for a whole-numbered fps; the
\* float 1.0 / 0.04 is 25.0
Mapped(idx, f10) ==
    IF idx = 0 THEN 0 ELSE FloatToInt(FloatMul(FloatDiv(idx, f10 \div 10), VadPerSecond))

DefaultAudio == [is_speech |-> FALSE, speech_prob |-> 0]

\* vad_for_frame(idx); vad_list[mapped] is element mapped + 1 of the sequence
VadForFrame(list, idx, f10) ==
    IF list = <<>> THEN DefaultAudio
    ELSE LET mapped == Mapped(idx, f10)
         IN IF mapped < 0 \/ mapped >= Len(list) THEN DefaultAudio
            ELSE [is_speech |-> list[mapped + 1].is_talking,
                  speech_prob |-> list[mapped + 1].speech_prob]

\* the audio sequences: sample i (from 0) has probability i percent and is
\* speech when i is odd, so no two samples are alike
VadSample(i) == [is_talking |-> i % 2 = 1, speech_prob |-> i]
VadLengths == {0, 29, 40, MaxAlignFrames}
VadLists == {[i \in 1..n |-> VadSample(i - 1)] : n \in VadLengths}
\* whole-numbered frame rates, in tenths
AlignerFps10 == {250, 300}

\* the vad script with the detector left out: every frame asks for its audio
InitAligner ==
    /\ variant = "vad"
    /\ fps10 \in AlignerFps10
    /\ width = DefaultWidth
    /\ height = DefaultHeight
    /\ previous_centers = <<>>
    /\ missing_counts = <<>>
    /\ stay_duration = <<>>
    /\ next_id = 1
    /\ previous_frame_gray = NoGray
    /\ frame_index = 0
    /\ frame_data = NoRecord
    /\ phase = "read"
    /\ errors = 0
    /\ issued = <<>>
    /\ hist = <<>>
    /\ stream = [ok |-> TRUE, last |-> <<0, 0>>]
    /\ last_gray = NoGray
    /\ vad_list \in VadLists
    /\ audio = NoAudio
    /\ jobs = <<>>
    /\ handler = <<>>
    /\ db_failures = 0
    /\ sent = <<>>
    /\ acked = <<>>

\* frame_data["audio"] = vad_for_frame(frame_index), then frame_index += 1
AlignFrame ==
    /\ frame_index < MaxAlignFrames
    /\ audio' = VadForFrame(vad_list, frame_index, fps10)
    /\ frame_index' = frame_index + 1
    /\ UNCHANGED <<variant, fps10, width, height, previous_centers, missing_counts,
                   stay_duration, next_id, previous_frame_gray, frame_data, phase,
                   errors, issued, hist, stream, last_gray, vad_list>>
    /\ UNCHANGED jobVars

NextAligner == AlignFrame

SpecAligner == InitAligner /\ [][NextAligner]_vars

\* ------------------------------------------------ job queue and webhooks
\* api/check_reframe_jobs.py, api/start_reframe_job.py and
\* api/retry_failed_webhooks.py over table jobs.  Every SQL statement is one
\* atomic step; request handlers interleave between their statements.  Time
\* passes in cron periods of one minute.
Jobs == {1, 2}
\* job 1 was submitted with a callback_url, job 2 without
CallbackUrl(j) == j = 1
Handlers == 1..MaxHandlers
NoJob == 0
NoCallback == -1
MinutesCap == RetryIntervalSeconds \div CronSeconds + 1
Idle == [pc |-> "idle", job |-> NoJob, bound |-> FALSE, todo |-> <<>>]

\* get_db_connection() gives a connection (ok) or None
Db(ok) ==
    /\ ok \/ db_failures < MaxDbFailures
    /\ db_failures' = IF ok THEN db_failures ELSE db_failures + 1

\* SELECT job_id FROM jobs WHERE status = 'processing' LIMIT 1
ProcessingJobs == {j \in Jobs : jobs[j].status = "processing"}
\* SELECT job_id FROM jobs WHERE status = 'in_queue' ORDER BY created_unix ASC LIMIT 1
QueuedJobs == {j \in Jobs : jobs[j].status = "in_queue"}
FirstOf(S) == CHOOSE j \in S : \A k \in S : j <= k

\* check_reframe_jobs up to the test of get_processing_job(), which gives None
\* also when there is no connection
CheckReframeJobs(h, ok) ==
    /\ handler[h].pc = "idle"
    /\ Db(ok)
    /\ handler' = [handler EXCEPT ![h] =
                      IF ok /\ ProcessingJobs # {} THEN Idle ELSE [Idle EXCEPT !.pc = "next"]]
    /\ UNCHANGED <<jobs, sent, acked>>
    /\ UNCHANGED videoVars

\* next_job = get_next_job(), then process_job(next_job) is entered
GetNextJob(h, ok) ==
    /\ handler[h].pc = "next"
    /\ Db(ok)
    /\ handler' = [handler EXCEPT ![h] =
                      IF ok /\ QueuedJobs # {}
                      THEN [Idle EXCEPT !.pc = "p_start", !.job = FirstOf(QueuedJobs)]
                      ELSE Idle]
    /\ UNCHANGED <<jobs, sent, acked>>
    /\ UNCHANGED videoVars

\* POST /internal/start_reframe_job for a queued job: process_job(job_id) is entered
StartReframeJob(h, j) ==
    /\ handler[h].pc = "idle"
    /\ jobs[j].status = "in_queue"
    /\ handler' = [handler EXCEPT ![h] = [Idle EXCEPT !.pc = "p_start", !.job = j]]
    /\ UNCHANGED <<jobs, db_failures, sent, acked>>
    /\ UNCHANGED videoVars

\* process_job: update_job_status(job_id, 'processing'), which raises without a
\* connection
UpdateProcessing(h, ok) ==
    /\ handler[h].pc = "p_start"
    /\ Db(ok)
    /\ jobs' = IF ok THEN [jobs EXCEPT ![handler[h].job].status = "processing"] ELSE jobs
    /\ handler' = [handler EXCEPT ![h].pc = IF ok THEN "p_work" ELSE "p_except"]
    /\ UNCHANGED <<sent, acked>>
    /\ UNCHANGED videoVars

WorkOutcomes == {"done", "lookup_failed", "step_failed"}
\* process_job from get_job to deduct_balance: get_job raises before callback_url
\* is assigned, the later steps raise after it
Work(h, outcome) ==
    /\ handler[h].pc = "p_work"
    /\ Db(outcome # "lookup_failed")
    /\ handler' = [handler EXCEPT ![h].pc = IF outcome = "done" THEN "p_success" ELSE "p_except",
                                   ![h].bound = outcome # "lookup_failed"]
    /\ UNCHANGED <<jobs, sent, acked>>
    /\ UNCHANGED videoVars

\* process_job: update_job_status(job_id, 'success', ...), then `if callback_url:`
UpdateSuccess(h, ok) ==
    /\ handler[h].pc = "p_success"
    /\ Db(ok)
    /\ jobs' = IF ok THEN [jobs EXCEPT ![handler[h].job].status = "success"] ELSE jobs
    /\ handler' = [handler EXCEPT ![h] =
                      IF ~ok THEN [handler[h] EXCEPT !.pc = "p_except"]
                      ELSE IF CallbackUrl(handler[h].job) THEN [handler[h] EXCEPT !.pc = "p_send"]
                      ELSE Idle]
    /\ UNCHANGED <<sent, acked>>
    /\ UNCHANGED videoVars

\* process_job, except branch: update_job_status(job_id, 'failed', ...), which
\* raises out of process_job without a connection; then `if callback_url:`, a
\* NameError when callback_url was never assigned
UpdateFailed(h, ok) ==
    /\ handler[h].pc = "p_except"
    /\ Db(ok)
    /\ jobs' = IF ok THEN [jobs EXCEPT ![handler[h].job].status = "failed"] ELSE jobs
    /\ handler' = [handler EXCEPT ![h] =
                      IF ok /\ handler[h].bound /\ CallbackUrl(handler[h].job)
                      THEN [handler[h] EXCEPT !.pc = "p_send"]
                      ELSE Idle]
    /\ UNCHANGED <<sent, acked>>
    /\ UNCHANGED videoVars

\* the row of a job after a callback attempt has been recorded
AfterAttempt(row, delivered) ==
    [row EXCEPT !.failed_callbacks_count = IF delivered THEN 0 ELSE row.failed_callbacks_count + 1,
                !.last_callback = 0]

\* start_reframe_job.send_webhook: the POST, then update_callback_status, which
\* returns without a connection
SendWebhook(h, answered, ok) ==
    /\ handler[h].pc = "p_send"
    /\ sent[handler[h].job] < MaxSends
    /\ Db(ok)
    /\ sent' = [sent EXCEPT ![handler[h].job] = sent[handler[h].job] + 1]
    /\ acked' = [acked EXCEPT ![handler[h].job] = acked[handler[h].job] \/ answered]
    /\ jobs' = IF ok THEN [jobs EXCEPT ![handler[h].job] = AfterAttempt(jobs[handler[h].job], answered)]
               ELSE jobs
    /\ handler' = [handler EXCEPT ![h] = Idle]
    /\ UNCHANGED videoVars

\* the WHERE clause of get_jobs_needing_webhook_retry
NeedsRetry(j) ==
    /\ CallbackUrl(j)
    /\ jobs[j].status \in {"success", "failed"}
    /\ jobs[j].failed_callbacks_count < MaxRetryAttempts
    /\ \/ jobs[j].last_callback = NoCallback
       \/ jobs[j].last_callback * CronSeconds > RetryIntervalSeconds
\* the rows selected, at most RetryBatch of them
RECURSIVE ListOf(_)
ListOf(S) == IF S = {} THEN <<>> ELSE <<FirstOf(S)>> \o ListOf(S \ {FirstOf(S)})
JobsNeedingWebhookRetry ==
    LET rows == ListOf({j \in Jobs : NeedsRetry(j)})
    IN SubSeq(rows, 1, Min(Len(rows), RetryBatch))

\* retry_failed_webhooks up to `if not jobs`; without a connection the list is empty
RetryFailedWebhooks(h, ok) ==
    /\ handler[h].pc = "idle"
    /\ Db(ok)
    /\ handler' = [handler EXCEPT ![h] =
                      IF ok /\ JobsNeedingWebhookRetry # <<>>
                      THEN [Idle EXCEPT !.pc = "r_send", !.todo = JobsNeedingWebhookRetry]
                      ELSE Idle]
    /\ UNCHANGED <<jobs, sent, acked>>
    /\ UNCHANGED videoVars

\* one turn of `for job in jobs`: send_webhook(job), then update_webhook_attempt,
\* which returns without a connection
RetrySend(h, answered, ok) ==
    /\ handler[h].pc = "r_send"
    /\ sent[Head(handler[h].todo)] < MaxSends
    /\ Db(ok)
    /\ sent' = [sent EXCEPT ![Head(handler[h].todo)] = sent[Head(handler[h].todo)] + 1]
    /\ acked' = [acked EXCEPT ![Head(handler[h].todo)] = acked[Head(handler[h].todo)] \/ answered]
    /\ jobs' = IF ok THEN [jobs EXCEPT ![Head(handler[h].todo)] =
                                AfterAttempt(jobs[Head(handler[h].todo)], answered)]
               ELSE jobs
    /\ handler' = [handler EXCEPT ![h] =
                      IF Tail(handler[h].todo) = <<>> THEN Idle
                      ELSE [handler[h] EXCEPT !.todo = Tail(handler[h].todo)]]
    /\ UNCHANGED videoVars

\* one cron period passes
Tick ==
    /\ \E j \in Jobs : jobs[j].last_callback \notin {NoCallback, MinutesCap}
    /\ jobs' = [j \in Jobs |->
                  IF jobs[j].last_callback = NoCallback THEN jobs[j]
                  ELSE [jobs[j] EXCEPT !.last_callback = Min(jobs[j].last_callback + 1, MinutesCap)]]
    /\ UNCHANGED <<handler, db_failures, sent, acked>>
    /\ UNCHANGED videoVars

\* the queue as POST /v1/reframe leaves it: both jobs in_queue, no callback sent
InitJobs ==
    /\ variant = "plain"
    /\ fps10 = DefaultFps10
    /\ width = DefaultWidth
    /\ height = DefaultHeight
    /\ previous_centers = <<>>
    /\ missing_counts = <<>>
    /\ stay_duration = <<>>
    /\ next_id = 1
    /\ previous_frame_gray = NoGray
    /\ frame_index = 0
    /\ frame_data = NoRecord
    /\ phase = "read"
    /\ errors = 0
    /\ issued = <<>>
    /\ hist = <<>>
    /\ stream = [ok |-> TRUE, last |-> <<0, 0>>]
    /\ last_gray = NoGray
    /\ vad_list = <<>>
    /\ audio = NoAudio
    /\ jobs = [j \in Jobs |-> [status |-> "in_queue", failed_callbacks_count |-> 0,
                                last_callback |-> NoCallback]]
    /\ handler = [h \in Handlers |-> Idle]
    /\ db_failures = 0
    /\ sent = [j \in Jobs |-> 0]
    /\ acked = [j \in Jobs |-> FALSE]

NextJobs ==
    \/ \E h \in Handlers, ok \in BOOLEAN : CheckReframeJobs(h, ok)
    \/ \E h \in Handlers, ok \in BOOLEAN : GetNextJob(h, ok)
    \/ \E h \in Handlers, j \in Jobs : StartReframeJob(h, j)
    \/ \E h \in Handlers, ok \in BOOLEAN : UpdateProcessing(h, ok)
    \/ \E h \in Handlers, outcome \in WorkOutcomes : Work(h, outcome)
    \/ \E h \in Handlers, ok \in BOOLEAN : UpdateSuccess(h, ok)
    \/ \E h \in Handlers, ok \in BOOLEAN : UpdateFailed(h, ok)
    \/ \E h \in Handlers, answered \in BOOLEAN, ok \in BOOLEAN : SendWebhook(h, answered, ok)
    \/ \E h \in Handlers, ok \in BOOLEAN : RetryFailedWebhooks(h, ok)
    \/ \E h \in Handlers, answered \in BOOLEAN, ok \in BOOLEAN : RetrySend(h, answered, ok)
    \/ Tick

SpecJobs == InitJobs /\ [][NextJobs]_vars

\* ------------------------------------------------------------- claims
Written == phase = "written"
Live == Keys(previous_centers)
Objects == frame_data.objects
ObjectIds == {Objects[k].id : k \in DOMAIN Objects}

\* round(fps * 2) as Python rounds: to the nearest integer, halves to the even one
RoundFps2 ==
    LET n == fps10 * EvictSeconds
        q == n \div 10
        r == n % 10
    IN IF r * 2 < 10 THEN q ELSE IF r * 2 > 10 THEN q + 1 ELSE IF q % 2 = 0 THEN q ELSE q + 1
\* the eviction threshold as the specification states it
NClaim == Max(MinEvictFrames, RoundFps2)

\* C1: every newly allocated track id is greater than every id allocated before
\* it in the run, and the first id is 1; so no id is issued twice and the id of
\* an evicted track never comes back.
C1_IdsStrictlyIncreasing ==
    /\ \A i, j \in DOMAIN issued : i < j => issued[i] < issued[j]
    /\ Len(issued) > 0 => issued[1] = 1
\* track 1 was evicted in an earlier frame and the detection of this frame got
\* the fresh id 2
C1_Witness ==
    /\ Written
    /\ issued = <<1, 2>>
    /\ 1 \notin Live
    /\ hist[1].run = RunCap
    /\ 2 \in ObjectIds
    /\ stay_duration[2] = 1

\* C2: while every frame holds exactly one detection whose center moved by at
\* most MATCH_DISTANCE_THRESHOLD since the frame before, one id only is ever
\* allocated and every record carries it.
C2_SingleObjectKeepsId ==
    (stream.ok /\ frame_index > 0) =>
        /\ issued = <<1>>
        /\ Written => ObjectIds = {1}
\* the fourth frame or later of such a stream, the object having just moved by
\* exactly the threshold
C2_Witness ==
    /\ stream.ok
    /\ Written
    /\ frame_index >= 4
    /\ MovedAtMostThreshold(Objects[1].motion_vector, <<0, 0>>)
    /\ ~MovedAtMostThreshold(Objects[1].motion_vector, <<1, 0>>)

\* C3 (as claimed): a track unmatched for more than max(2, round(fps*2))
\* consecutive frames is in no later record, and a detection at its old center
\* gets a newly allocated, greater id.
C3_EvictedNeverReturns ==
    [][(phase = "read" /\ phase' = "written") =>
         \A id \in DOMAIN hist :
            hist[id].run > NClaim =>
               \A k \in DOMAIN frame_data'.objects :
                  /\ frame_data'.objects[k].id # id
                  /\ frame_data'.objects[k].bbox_center = hist[id].c
                        => frame_data'.objects[k].id >= next_id]_vars

\* C4 (as claimed): after every processed frame a track is in the registry
\* exactly if it was matched within the last max(2, round(fps*2)) frames.
C4_LiveIffRecentlyMatched ==
    Written => \A id \in DOMAIN hist : (id \in Live) <=> (hist[id].run <= NClaim)

\* C5: the id of every object record of a written frame record, and so the
\* dominant subject id, is a key of the registry as it stands after the
\* eviction pass and the center update of that frame.
C5_RecordIdsAreLive ==
    Written =>
        /\ ObjectIds \subseteq Live
        /\ ObjectIds \subseteq DOMAIN missing_counts \cap DOMAIN stay_duration
        /\ Len(Objects) > 0 => frame_data.dominant_subject_id \in Live
\* a record with an object, written after the eviction pass has removed a track
C5_Witness ==
    /\ Written
    /\ Len(Objects) > 0
    /\ \E id \in DOMAIN hist : id \notin Live /\ hist[id].run < RunCap

\* C6: the importance score of every object record lies in [0, 1].
C6_ImportanceInUnitInterval ==
    Written => \A k \in DOMAIN Objects :
        /\ Objects[k].importance_score >= 0
        /\ Objects[k].importance_score <= ScoreOne
\* a frame-filling, fully confident detection that moved by more than 30 pixels
C6_Witness ==
    /\ Written
    /\ \E k \in DOMAIN Objects :
          /\ Objects[k].importance_score = ScoreOne
          /\ Objects[k].motion_magnitude > 100 * MotionNorm

\* C7: the frame event score of every record of the plain script lies in [0, 1].
C7_EventScoreInUnitInterval ==
    (Written /\ variant = "plain") =>
        /\ frame_data.frame_event_score >= 0
        /\ frame_data.frame_event_score <= ScoreOne
\* a scene change on a frame with two objects, whose sum exceeds 1 before the clamp
C7_Witness ==
    /\ Written
    /\ variant = "plain"
    /\ frame_data.is_scene_change
    /\ Len(Objects) = 2
    /\ EventSum(Objects, TRUE, width, height) > ScoreOne
    /\ frame_data.frame_event_score = ScoreOne

\* C9 (as claimed): every loop iteration writes the record of its frame, the
\* failed ones included.
C9_OneRecordPerFrame ==
    phase # "read" => (frame_data # NoRecord /\ frame_data.frame = frame_index - 1)

\* C10 (as claimed): a frame on which the detector fails is processed as a frame
\* with zero detections: an empty record is written and the missing counters
\* advance, with eviction.
C10_FailedFrameIsEmptyFrame ==
    [][phase' = "skipped" =>
         \E gray \in GrayInputs :
            LET r == FrameResult(<<>>, gray)
            IN /\ frame_data' = FrameRecord(<<>>, r.scene)
               /\ previous_centers' = r.centers
               /\ missing_counts' = r.reg.missing
               /\ stay_duration' = r.reg.stay]_vars

\* C11: a record written for a frame with zero detections has no dominant
\* subject, dominant importance 0 and the frame center as focus center, whatever
\* the registry holds; in the plain script, which is the one that computes a
\* frame event score, that score is 0.
C11_EmptyFrameDefaults ==
    (Written /\ Len(Objects) = 0) =>
        /\ frame_data.dominant_subject_id = None
        /\ frame_data.dominant_subject_confidence = 0
        /\ frame_data.frame_focus_center2 = <<width, height>>
        /\ variant = "plain" => frame_data.frame_event_score = 0
\* a frame without detections that is a scene change, while a track is live
C11_Witness ==
    /\ Written
    /\ variant = "plain"
    /\ Len(Objects) = 0
    /\ frame_data.is_scene_change
    /\ Live # {}

\* C12 (as claimed): the aligner returns the flag and the probability of audio
\* sample floor((idx / fps) * 25) when the list has that sample, and the default
\* (false, 0.0) otherwise.
C12_AlignerReturnsFloorSample ==
    audio # NoAudio =>
        LET idx == frame_index - 1
            k == (idx * VadPerSecond * 10) \div fps10
        IN audio = IF k < Len(vad_list)
                   THEN [is_speech |-> vad_list[k + 1].is_talking,
                         speech_prob |-> vad_list[k + 1].speech_prob]
                   ELSE DefaultAudio

\* C13 (as claimed): the four normalized bounding-box fields of every object
\* record of a detection with x1 < x2 and y1 < y2 lie in [0, 1].
C13_NormalizedInUnitInterval ==
    Written => \A k \in DOMAIN Objects :
        (Objects[k].bbox_wh[1] > 0 /\ Objects[k].bbox_wh[2] > 0) =>
            \A n \in 1..4 : Objects[k].bbox_normalized[n] \in 0..Unit

\* C14: the motion vector of an object record is its center minus the center
\* its track had when it was last matched, and (0, 0) when the track is created
\* in this frame.
C14_MotionFromLastCenter ==
    [][(phase = "read" /\ phase' = "written") =>
         \A k \in DOMAIN frame_data'.objects :
            LET o == frame_data'.objects[k]
            IN o.motion_vector =
                  IF o.id \in DOMAIN hist
                  THEN <<o.bbox_center[1] - hist[o.id].c[1],
                         o.bbox_center[2] - hist[o.id].c[2]>>
                  ELSE <<0, 0>>]_vars
\* a track seen at (150, 80) and now at (152, 81): motion (2, 1)
C14_Witness ==
    /\ Written
    /\ \E k \in DOMAIN Objects :
          /\ Objects[k].bbox_center = <<152, 81>>
          /\ Objects[k].motion_vector = <<2, 1>>
          /\ Objects[k].stay_duration_frames >= 2

\* C15: the dominant subject of a frame with objects is an object record of
\* the frame with the largest importance score, the earliest such record in
\* detection order, and the frame focus center is that record's center.
C15_DominantIsFirstMaximum ==
    (Written /\ Len(Objects) > 0) =>
        \E k \in DOMAIN Objects :
            /\ \A j \in DOMAIN Objects :
                  Objects[j].importance_score <= Objects[k].importance_score
            /\ \A j \in 1..(k - 1) :
                  Objects[j].importance_score < Objects[k].importance_score
            /\ frame_data.dominant_subject_id = Objects[k].id
            /\ frame_data.dominant_subject_confidence = Objects[k].importance_score
            /\ frame_data.frame_focus_center2 =
                  <<2 * Objects[k].bbox_center[1], 2 * Objects[k].bbox_center[2]>>
\* two records of different tracks with the same score: the first is dominant
C15_Witness ==
    /\ Written
    /\ Len(Objects) = 2
    /\ Objects[1].importance_score = Objects[2].importance_score
    /\ Objects[1].id # Objects[2].id
    /\ frame_data.dominant_subject_id = Objects[1].id

\* C16 (as claimed): the scene-change flag of a frame is false for the first
\* frame and otherwise tells whether the luminance differs by more than 25 from
\* the frame right before it in the stream, a failed frame included.
C16_SceneChangeAgainstPredecessor ==
    [][(phase = "read" /\ phase' = "written") =>
         frame_data'.is_scene_change =
            (last_gray # NoGray /\ Abs(last_gray' - last_gray) > SceneThreshold)]_vars

\* C17: fps, width, height and the frame area are never 0, a capture that
\* reports 0 being given 30.0, 1920 and 1080; a frame without objects gets the
\* event score 0 and the averages of a frame with objects have a non-zero
\* divisor; were the frame area 0, the area percentage would be 0.
C17_NoZeroDivisor ==
    /\ fps10 # 0
    /\ width # 0
    /\ height # 0
    /\ width * height # 0
    /\ Written =>
         /\ (Len(Objects) = 0 /\ variant = "plain") => frame_data.frame_event_score = 0
         /\ Len(Objects) > 0 =>
               Len(Objects) * (Isqrt(width * width + height * height) + 1) # 0
         /\ width * height = 0 =>
               \A k \in DOMAIN Objects : Objects[k].bbox_area_percentage = 0
\* a record with an object, of a capture that reported neither fps nor size
C17_Witness ==
    /\ Written
    /\ fps10 = DefaultFps10
    /\ width = DefaultWidth
    /\ height = DefaultHeight
    /\ Len(Objects) > 0

\* C18: a detection resolves to a live track at minimum distance from its
\* center when that distance is at most MATCH_DISTANCE_THRESHOLD, and gets the
\* next unused id when the registry is empty or the distance is greater.
C18_NearestWithinThreshold ==
    [][(phase = "read" /\ phase' = "written") =>
         \A k \in DOMAIN frame_data'.objects :
            LET o == frame_data'.objects[k]
                c == o.bbox_center
                tracks == DOMAIN previous_centers
            IN IF \E i \in tracks : MovedAtMostThreshold(c, previous_centers[i].c)
               THEN \E i \in tracks :
                       /\ previous_centers[i].id = o.id
                       /\ \A j \in tracks :
                             Dist2(c, previous_centers[i].c) <= Dist2(c, previous_centers[j].c)
               ELSE o.id = next_id + Cardinality({j \in 1..(k - 1) :
                                                    frame_data'.objects[j].id >= next_id})]_vars
\* track 2, the second of the registry, is matched while track 1 is live and
\* somewhere else
C18_Witness ==
    /\ Written
    /\ Len(previous_centers) = 2
    /\ previous_centers[1].id = 1
    /\ previous_centers[2].id = 2
    /\ previous_centers[1].c # previous_centers[2].c
    /\ \E k \in DOMAIN Objects :
          Objects[k].id = 2 /\ Objects[k].stay_duration_frames >= 2

\* C19 (as claimed): after a processed frame every track matched in it has the
\* missing counter 0.
C19_MatchedMissingZero ==
    Written => \A id \in ObjectIds : id \in DOMAIN missing_counts /\ missing_counts[id] = 0

\* C20 (as claimed): a frame adds exactly 1 to the dwell counter of a track it
\* matches, and sets it to 1 for a track it creates, however many detections
\* resolve to the track.
C20_DwellPlusOne ==
    [][(phase = "read" /\ phase' = "written") =>
         \A k \in DOMAIN frame_data'.objects :
            LET id == frame_data'.objects[k].id
            IN stay_duration'[id] =
                  IF id \in Keys(previous_centers) THEN stay_duration[id] + 1 ELSE 1]_vars

\* C21 (as claimed): the dwell of a track is the number of consecutive frames,
\* ending at this one, in which it was matched: a track matched again after a
\* gap, by a single detection, has dwell 1.
C21_DwellRestartsAfterGap ==
    [][(phase = "read" /\ phase' = "written" /\ errors = 0) =>
         \A k \in DOMAIN frame_data'.objects :
            LET o == frame_data'.objects[k]
            IN (/\ o.id \in DOMAIN hist
                /\ hist[o.id].run >= 1
                /\ \A j \in DOMAIN frame_data'.objects :
                      frame_data'.objects[j].id = o.id => j = k)
               => o.stay_duration_frames = 1]_vars

\* C22: a frame on which inference succeeds adds exactly 1 to the missing
\* counter of every live track it does not match and leaves that track's
\* center and dwell as they were, unless it evicts the track; a frame without
\* detections leaves next_id as it was.
C22_UnmatchedMissingPlusOne ==
    [][(phase = "read" /\ phase' = "written") =>
         /\ \A i \in DOMAIN previous_centers :
               LET id == previous_centers[i].id
               IN (\A k \in DOMAIN frame_data'.objects : frame_data'.objects[k].id # id) =>
                     \/ /\ id \notin Keys(previous_centers')
                        /\ id \notin DOMAIN missing_counts'
                        /\ id \notin DOMAIN stay_duration'
                     \/ /\ missing_counts'[id] = missing_counts[id] + 1
                        /\ stay_duration'[id] = stay_duration[id]
                        /\ \E n \in DOMAIN previous_centers' :
                              previous_centers'[n] = previous_centers[i]
         /\ Len(frame_data'.objects) = 0 => next_id' = next_id]_vars
\* a frame that matches one track and leaves another one unmatched, for the
\* second time
C22_Witness ==
    /\ Written
    /\ Len(Objects) > 0
    /\ \E id \in Live \ ObjectIds : missing_counts[id] = 2

\* C23: the registry is iterated in increasing id order, and of several live
\* tracks at the same minimal distance from a detection the one with the
\* lowest id is chosen.
C23_TieGoesToLowestId ==
    [][(phase = "read" /\ phase' = "written") =>
         /\ \A i, j \in DOMAIN previous_centers :
               i < j => previous_centers[i].id < previous_centers[j].id
         /\ \A i, j \in DOMAIN previous_centers' :
               i < j => previous_centers'[i].id < previous_centers'[j].id
         /\ \A k \in DOMAIN frame_data'.objects :
               LET o == frame_data'.objects[k]
               IN \A i, j \in DOMAIN previous_centers :
                     (/\ previous_centers[i].id = o.id
                      /\ Dist2(o.bbox_center, previous_centers[j].c)
                            = Dist2(o.bbox_center, previous_centers[i].c))
                     => o.id <= previous_centers[j].id]_vars
\* a detection at (186, 80), as far from track 1 at (150, 80) as from track 2
\* at (222, 80), went to track 1
C23_Witness ==
    /\ Written
    /\ Len(Objects) = 1
    /\ Objects[1].id = 1
    /\ Objects[1].motion_vector = <<36, 0>>
    /\ previous_centers = <<[id |-> 1, c |-> <<186, 80>>], [id |-> 2, c |-> <<222, 80>>]>>

\* C24 (as claimed): when several detections of a frame resolve to the same
\* existing track, the center stored for the track after the frame is that of
\* the first of them.
C24_FirstClaimKeepsCenter ==
    [][(phase = "read" /\ phase' = "written") =>
         \A k \in DOMAIN frame_data'.objects :
            LET o == frame_data'.objects[k]
            IN (\A j \in 1..(k - 1) : frame_data'.objects[j].id # o.id) =>
                  \E n \in DOMAIN previous_centers' :
                     previous_centers'[n] = [id |-> o.id, c |-> o.bbox_center]]_vars

\* C29: the motion magnitude of every object record is at most
\* MATCH_DISTANCE_THRESHOLD.
C29_MotionWithinThreshold ==
    Written => \A k \in DOMAIN Objects :
        MovedAtMostThreshold(Objects[k].motion_vector, <<0, 0>>)
\* with two live tracks, a record whose motion is exactly the threshold
C29_Witness ==
    /\ Written
    /\ Len(previous_centers) = 2
    /\ \E k \in DOMAIN Objects :
          /\ Objects[k].motion_magnitude = 100 * ((ThresholdPct * Max(width, height)) \div 100)
          /\ (ThresholdPct * Max(width, height)) % 100 = 0

\* C30: a detection is never matched to a track created earlier in the same
\* frame: every record's id is a key the registry had before the frame or an
\* id allocated for this record alone, so detections that create tracks in one
\* frame get distinct ids.
C30_SameFrameTracksDistinct ==
    [][(phase = "read" /\ phase' = "written") =>
         \A k \in DOMAIN frame_data'.objects :
            LET o == frame_data'.objects[k]
            IN \/ o.id \in Keys(previous_centers)
               \/ /\ o.id >= next_id
                  /\ o.motion_vector = <<0, 0>>
                  /\ \A j \in DOMAIN frame_data'.objects :
                        frame_data'.objects[j].id = o.id => j = k]_vars
\* two detections at the same place, in a frame with an empty registry, have
\* created tracks 1 and 2
C30_Witness ==
    /\ Written
    /\ Len(Objects) = 2
    /\ Objects[1].bbox_center = Objects[2].bbox_center
    /\ Objects[1].id = 1
    /\ Objects[2].id = 2
    /\ Objects[1].stay_duration_frames = 1
    /\ Objects[2].stay_duration_frames = 1

\* C25 (as claimed): once the callback URL of a job has answered 200, no
\* invocation of the retry cron selects the job for another webhook.
C25_DeliveredNeverRetried ==
    [][\A h \in DOMAIN handler :
          (handler[h].pc = "idle" /\ handler'[h].pc = "r_send") =>
             \A n \in DOMAIN handler'[h].todo : ~acked[handler'[h].todo[n]]]_vars

\* C26 (as claimed): a job whose callback URL has never answered 200 has had
\* at most 3 webhooks posted, the worker's and the cron's together.
C26_AtMostThreeAttempts ==
    \A j \in DOMAIN sent : ~acked[j] => sent[j] <= MaxRetryAttempts

\* C27 (as claimed): at most one job has status 'processing'.
C27_OneProcessingJob ==
    Cardinality({j \in DOMAIN jobs : jobs[j].status = "processing"}) <= 1

\* C28 (as claimed): a job in 'processing' is on its way to 'success' or
\* 'failed': some invocation of process_job is still working on it.
C28_ProcessingJobHasWorker ==
    \A j \in DOMAIN jobs :
        jobs[j].status = "processing" =>
            \E h \in DOMAIN handler :
                /\ handler[h].job = j
                /\ handler[h].pc \in {"p_start", "p_work", "p_success", "p_except"}

====
